---- MODULE Spec2Model ----
(***************************************************************************)
(* Model of syzygy/agent/asan/asan_system_interceptor_parser.py: one run   *)
(* of main(), from the construction of ASanSystemInterceptorGenerator to   *)
(* the end of the `with` statement.                                        *)
(*                                                                         *)
(* Text is modelled with TLA+ strings.  A raw parameter list is modelled   *)
(* as the sequence of its argument declarations (each with the text of its *)
(* SAL tag, tag arguments, type and name) followed by any trailing text;   *)
(* two parameter lists are the same raw text iff they are the same value.  *)
(* A file is the sequence of the chunks written to it.                     *)
(***************************************************************************)
EXTENDS Integers, Sequences, FiniteSets, TLC

\* Largest number of header files given on the command line.
MaxFiles == 2
\* Largest number of arguments of a generated single-declaration header.
MaxArgs == 2

----------------------------------------------------------------------------
(* Strings and characters                                                  *)

Letters ==
  {"a","b","c","d","e","f","g","h","i","j","k","l","m","n","o","p","q","r",
   "s","t","u","v","w","x","y","z",
   "A","B","C","D","E","F","G","H","I","J","K","L","M","N","O","P","Q","R",
   "S","T","U","V","W","X","Y","Z"}

Digits == {"0","1","2","3","4","5","6","7","8","9"}

\* \w of the regular expressions.
WordChars == Letters \cup Digits \cup {"_"}

CharAt(s, i) == SubSeq(s, i, i)

AllIn(s, chars) == \A i \in 1..Len(s) : CharAt(s, i) \in chars

\* Python's `sub in s`.
Contains(s, sub) ==
  \E i \in 1..(Len(s) - Len(sub) + 1) : SubSeq(s, i, i + Len(sub) - 1) = sub

\* Python's s.split(',')[0]: the text before the first comma, or all of s.
RECURSIVE SplitFirst(_, _)
SplitFirst(s, i) ==
  IF i > Len(s) THEN s
  ELSE IF CharAt(s, i) = "," THEN SubSeq(s, 1, i - 1)
  ELSE SplitFirst(s, i + 1)

\* An absent regular-expression group (Python's None) is <<>>, a present
\* one with text t is <<t>>.
None == <<>>
Some(t) == <<t>>

----------------------------------------------------------------------------
(* The static tables                                                       *)

_TAGS_TO_INTERCEPT ==
  [t \in {"_In_reads_bytes_opt_", "_Out_writes_to_opt_",
          "_Out_writes_bytes_opt_", "_Out_writes_bytes_to_opt_"} |->
     IF t = "_In_reads_bytes_opt_" THEN "READ" ELSE "WRITE"]

_TAGS_TO_CHECK_POSTCALL == {"_Out_", "_Out_opt_"}

_TAGS_TO_CHECK_PRECALL == _TAGS_TO_CHECK_POSTCALL \cup {"_Inout_", "_Inout_opt_"}

----------------------------------------------------------------------------
(* _ARG_TOKENS_RE and _FUNCTION_MATCH_RE                                   *)

\* (?P<SAL_tag>(\_\w+\_)): an underscore, one or more word characters, an
\* underscore.
IsSalTag(t) ==
  /\ Len(t) >= 3
  /\ CharAt(t, 1) = "_"
  /\ CharAt(t, Len(t)) = "_"
  /\ AllIn(t, WordChars)

\* (\((?P<SAL_tag_args>[^\)]*)\))?: absent, or text without a closing
\* parenthesis between the tag's parentheses.
IsSalTagArgs(a) == a = None \/ ~Contains(a[1], ")")

\* (?P<var_type>...[a-zA-Z][a-zA-Z_]+) followed by white space: a letter and
\* then one or more letters or underscores, no digit.
IsVarType(t) ==
  /\ Len(t) >= 2
  /\ CharAt(t, 1) \in Letters
  /\ AllIn(t, Letters \cup {"_"})

\* (?P<var_name>\w+)
IsVarName(n) == Len(n) >= 1 /\ AllIn(n, WordChars)

\* Whether _ARG_TOKENS_RE matches one argument declaration of the list.
ArgMatches(arg) ==
  /\ IsSalTag(arg.SAL_tag)
  /\ IsSalTagArgs(arg.SAL_tag_args)
  /\ IsVarType(arg.var_type)
  /\ IsVarName(arg.var_name)

\* _ARG_TOKENS_RE.finditer(function_arguments): the matches, left to right.
\* The trailing text of a parameter list holds no match.
ArgTokens(function_arguments) == SelectSeq(function_arguments.args, ArgMatches)

\* WINAPI\s+ under re.IGNORECASE, for the spellings the inputs use.
IsWinapi(callconv) == callconv \in {"WINAPI", "winapi"}

DeclMatches(item) == IsWinapi(item.callconv)

\* _FUNCTION_MATCH_RE.finditer(f_content): the matches, left to right.
FunctionMatches(f_content) == SelectSeq(f_content, DeclMatches)

----------------------------------------------------------------------------
(* The templates: a rendered text is the record of the values substituted  *)
(* for the template's identifiers.                                         *)

param_checks_template(param_to_check, access_type) ==
  [param_to_check |-> param_to_check, access_type |-> access_type]

instrumentation_filter_entry_template(function_name, module_name) ==
  [function_name |-> function_name, module_name |-> module_name]

interceptor_template(ret_type, function_name, function_arguments, buffer_to_check, buffer_size, access_type, function_param_names, param_checks_precall, param_checks_postcall) ==
  [ret_type |-> ret_type,
   function_name |-> function_name,
   function_arguments |-> function_arguments,
   buffer_to_check |-> buffer_to_check,
   buffer_size |-> buffer_size,
   access_type |-> access_type,
   function_param_names |-> function_param_names,
   param_checks_precall |-> param_checks_precall,
   param_checks_postcall |-> param_checks_postcall]

\* 'asan_' + function_name + '\n'
ExportLine(function_name) == "asan_" \o function_name \o "\n"

----------------------------------------------------------------------------
(* GenerateFunctionInterceptor, step by step                               *)

\* function_name in self._filter
InFilter(function_name, filter) == function_name \in DOMAIN filter

AlreadyIntercepted_Never(function_name, function_arguments, intercepted) ==
  FALSE

\* (function_name, function_arguments) in self._intercepted_functions
AlreadyIntercepted(function_name, function_arguments, intercepted) ==
  <<function_name, function_arguments>> \in intercepted

RECURSIVE FirstInterceptTag_Last(_)
FirstInterceptTag_Last(tokens) ==
  IF tokens = <<>> THEN None
  ELSE IF tokens[Len(tokens)].SAL_tag \in DOMAIN _TAGS_TO_INTERCEPT
       THEN Some(tokens[Len(tokens)])
       ELSE FirstInterceptTag_Last(SubSeq(tokens, 1, Len(tokens) - 1))

\* The loop that sets m_buffer_size_arg: the first token whose tag is a key
\* of _TAGS_TO_INTERCEPT (the loop breaks there), None when there is none.
RECURSIVE FirstInterceptTag(_)
FirstInterceptTag(tokens) ==
  IF tokens = <<>> THEN None
  ELSE IF Head(tokens).SAL_tag \in DOMAIN _TAGS_TO_INTERCEPT
       THEN Some(Head(tokens))
       ELSE FirstInterceptTag(Tail(tokens))

\* The loop that builds function_param_names: the names of the tokens,
\* separated by ', '.
RECURSIVE ParamNames(_, _)
ParamNames(tokens, function_param_names) ==
  IF tokens = <<>> THEN function_param_names
  ELSE ParamNames(Tail(tokens),
                  (IF function_param_names /= ""
                   THEN function_param_names \o ", "
                   ELSE function_param_names) \o Head(tokens).var_name)

AccessType_Inverted(SAL_tag) ==
  IF Contains(SAL_tag, "In") THEN "WRITE" ELSE "READ"

AccessType_AlwaysWrite(SAL_tag) == "WRITE"

\* 'READ' if 'In' in m_iter.group('SAL_tag') else 'WRITE'
AccessType(SAL_tag) ==
  IF Contains(SAL_tag, "In") THEN "READ" ELSE "WRITE"

\* The same loop's param_checks_precall.
RECURSIVE ParamChecksPrecall(_, _)
ParamChecksPrecall(tokens, param_checks_precall) ==
  IF tokens = <<>> THEN param_checks_precall
  ELSE ParamChecksPrecall(
         Tail(tokens),
         IF Head(tokens).SAL_tag \in _TAGS_TO_CHECK_PRECALL
         THEN Append(param_checks_precall,
                     param_checks_template(Head(tokens).var_name,
                                           AccessType(Head(tokens).SAL_tag)))
         ELSE param_checks_precall)

\* The same loop's param_checks_postcall: added to only inside the branch of
\* the pre-call tags.
RECURSIVE ParamChecksPostcall(_, _)
ParamChecksPostcall(tokens, param_checks_postcall) ==
  IF tokens = <<>> THEN param_checks_postcall
  ELSE ParamChecksPostcall(
         Tail(tokens),
         IF /\ Head(tokens).SAL_tag \in _TAGS_TO_CHECK_PRECALL
            /\ Head(tokens).SAL_tag \in _TAGS_TO_CHECK_POSTCALL
         THEN Append(param_checks_postcall,
                     param_checks_template(Head(tokens).var_name,
                                           AccessType(Head(tokens).SAL_tag)))
         ELSE param_checks_postcall)

\* m_buffer_size_arg.group('SAL_tag_args').split(',')[0], for a present group
BufferSize(SAL_tag_args) == SplitFirst(SAL_tag_args[1], 1)

\* The outcome of a call that returns at once.
NoOp(intercepted) ==
  [raised |-> "", intercepted |-> intercepted,
   impl |-> <<>>, filter |-> <<>>, def |-> <<>>]

\* The outcome of a call that raises.
Raises(exception, intercepted) ==
  [raised |-> exception, intercepted |-> intercepted,
   impl |-> <<>>, filter |-> <<>>, def |-> <<>>]

\* GenerateFunctionInterceptor(self, function_name, return_type,
\* function_arguments) on a generator with the attributes attrs: what it
\* raises, the new self._intercepted_functions and what it writes to each
\* output file.
GenerateFunctionInterceptor(attrs, filter, intercepted, function_name, return_type, function_arguments) ==
  IF "_filter" \notin attrs
  THEN Raises("AttributeError", intercepted)
  ELSE IF ~InFilter(function_name, filter)
  THEN NoOp(intercepted)
  ELSE IF AlreadyIntercepted(function_name, function_arguments, intercepted)
  THEN NoOp(intercepted)
  ELSE
    LET tokens == ArgTokens(function_arguments)
        m_buffer_size_arg == FirstInterceptTag(tokens)
    IN IF m_buffer_size_arg = None
       THEN NoOp(intercepted)
       ELSE
         LET m == m_buffer_size_arg[1]
             added == intercepted \cup {<<function_name, function_arguments>>}
         IN IF m.SAL_tag_args = None
            THEN \* None has no attribute 'split'
                 Raises("AttributeError", added)
            ELSE
              [raised |-> "",
               intercepted |-> added,
               impl |-> <<interceptor_template(
                            return_type, function_name, function_arguments,
                            m.var_name, BufferSize(m.SAL_tag_args),
                            _TAGS_TO_INTERCEPT[m.SAL_tag],
                            ParamNames(tokens, ""),
                            ParamChecksPrecall(tokens, <<>>),
                            ParamChecksPostcall(tokens, <<>>))>>,
               filter |-> <<instrumentation_filter_entry_template(
                              function_name, filter[function_name])>>,
               def |-> <<ExportLine(function_name)>>]

----------------------------------------------------------------------------
(* The inputs of a run                                                     *)

Arg(tag, tag_args, type, name) ==
  [SAL_tag |-> tag, SAL_tag_args |-> tag_args, var_type |-> type,
   var_name |-> name]

Decl(ret, callconv, name, args, rest) ==
  [ret |-> ret, callconv |-> callconv, name |-> name,
   params |-> [args |-> args, rest |-> rest]]

\* The parameters of the WriteFile declaration of the module docstring.
WriteFileArgs ==
  <<Arg("_In_", None, "HANDLE", "hFile"),
    Arg("_In_reads_bytes_opt_", Some("nNumberOfBytesToWrite"), "LPCVOID",
        "lpBuffer"),
    Arg("_In_", None, "DWORD", "nNumberOfBytesToWrite"),
    Arg("_Out_opt_", None, "LPDWORD", "lpNumberOfBytesWritten"),
    Arg("_Inout_opt_", None, "LPOVERLAPPED", "lpOverlapped")>>

\* main(sys.argv) hands optparse the script's own path with the arguments,
\* so the script is the first file visited.  _FUNCTION_MATCH_RE matches its
\* docstring twice: the WriteFile declaration, and the example interceptor
\* up to the first ');' of its body.
ScriptFile ==
  <<Decl("BOOL", "WINAPI", "WriteFile", WriteFileArgs, ""),
    Decl("BOOL", "WINAPI", "asan_WriteFile", WriteFileArgs,
         ") { if (lpBuffer != NULL) { TestMemoryRange(...")>>

A_buf == Arg("_In_reads_bytes_opt_", Some("n"), "LPCVOID", "buf")
A_out == Arg("_Out_writes_to_opt_", Some("len, return + 1"), "LPWSTR", "out")
A_res == Arg("_Out_", None, "LPDWORD", "res")
A_io == Arg("_Inout_", None, "LPDWORD", "io")
\* An argument without a SAL annotation.
A_h == Arg("", None, "HANDLE", "h")
\* A buffer tag written without its parenthesised arguments.
A_raw == Arg("_In_reads_bytes_opt_", None, "LPCVOID", "raw")

ArgPool == {A_buf, A_out, A_res, A_io, A_h, A_raw}

ParamLists == UNION {[1..n -> ArgPool] : n \in 1..MaxArgs}

\* A header that declares Foo with the given arguments.
GeneratedHeader(args) == <<Decl("BOOL", "WINAPI", "Foo", args, "")>>

ReadFileArgs ==
  <<Arg("_In_", None, "HANDLE", "hFile"),
    Arg("_Out_writes_bytes_to_opt_",
        Some("nNumberOfBytesToRead, *lpNumberOfBytesRead"), "LPVOID",
        "lpBuffer"),
    Arg("_In_", None, "DWORD", "nNumberOfBytesToRead"),
    Arg("_Out_opt_", None, "LPDWORD", "lpNumberOfBytesRead"),
    Arg("_Inout_opt_", None, "LPOVERLAPPED", "lpOverlapped")>>

HdrFileApi ==
  <<Decl("BOOL", "WINAPI", "WriteFile", WriteFileArgs, ""),
    Decl("int", "", "helper", <<Arg("", None, "int", "x")>>, ""),
    Decl("BOOL", "WINAPI", "ReadFile", ReadFileArgs, "")>>

HdrMixed ==
  <<Decl("BOOL", "WINAPI", "Foo", <<A_h, A_out, A_buf, A_io>>, ""),
    Decl("DWORD", "WINAPI", "GetTick",
         <<Arg("_In_", None, "UINT32", "flags"), A_res>>, ""),
    Decl("BOOL", "WINAPI", "Foo", <<A_h, A_out, A_buf, A_io>>, "")>>

HdrLower ==
  <<Decl("BOOL", "winapi", "Foo", <<A_res, A_buf>>, ""),
    Decl("BOOL", "WINAPI", "ReadFile", ReadFileArgs, "")>>

FixedHeaders == {HdrFileApi, HdrMixed, HdrLower}

HeaderLists ==
  UNION {[1..n -> FixedHeaders] : n \in 0..MaxFiles}
  \cup {<<GeneratedHeader(args)>> : args \in ParamLists}

Row(function, module) == [function |-> function, module |-> module]

\* Contents of the --filter file: the rows after the header row.
FilterFiles ==
  {<<>>,
   <<Row("WriteFile", "kernel32.dll"), Row("ReadFile", "kernel32.dll")>>,
   <<Row("Foo", "foo.dll"), Row("WriteFile", "kernel32.dll"),
     Row("GetTick", "kernel32.dll"), Row("Foo", "user32.dll")>>}

\* Content of the --def-file.
DefFileContent == "EXPORTS\n  asan_memcpy\n"

\* Content of an output file left by an earlier run.
OldContent == <<"stale">>

OutputNames == {"impl", "filter", "def"}

HandleNames == OutputNames \cup {"def_in", "filter_in", "input"}

OutputAttrs ==
  {"_output_impl_file", "_output_instrumentation_filter_file", "_def_file"}

----------------------------------------------------------------------------
(* State                                                                   *)

VARIABLES
  pc,                      \* where main is
  overwrite,               \* opts.overwrite
  filter_file,             \* rows of the filter file
  input_files,             \* the files VisitFunctionsInFiles is given
  existed,                 \* the output files present when the run starts
  fs,                      \* the output files: whether there, and content
  handle,                  \* each file handle: unopened, open (opened and
                           \* not closed by the program) or closed
  attrs,                   \* the attributes the generator object has
  _filter,                 \* self._filter
  _intercepted_functions,  \* self._intercepted_functions
  file_idx,                \* the next file of input_files to visit
  pending,                 \* the matches of the current file not yet visited
  exc,                     \* the exception main is ending with, "" if none
  exit_raised,             \* whether __exit__ itself raised
  calls                    \* the GenerateFunctionInterceptor calls so far

vars ==
  <<pc, overwrite, filter_file, input_files, existed, fs, handle, attrs,
    _filter, _intercepted_functions, file_idx, pending, exc, exit_raised,
    calls>>

inputs == <<overwrite, filter_file, input_files, existed>>

\* The output files as the run finds them.
InitialFs(present) ==
  [o \in OutputNames |->
     IF o \in present THEN [exists |-> TRUE, content |-> OldContent]
     ELSE [exists |-> FALSE, content |-> <<>>]]

Init ==
  /\ pc = "construct"
  /\ overwrite \in BOOLEAN
  /\ filter_file \in FilterFiles
  /\ \E headers \in HeaderLists : input_files = <<ScriptFile>> \o headers
  /\ existed \in SUBSET OutputNames
  /\ fs = InitialFs(existed)
  /\ handle = [h \in HandleNames |-> "unopened"]
  /\ attrs = {}
  /\ _filter = <<>>
  /\ _intercepted_functions = {}
  /\ file_idx = 1
  /\ pending = <<>>
  /\ exc = ""
  /\ exit_raised = FALSE
  /\ calls = <<>>

----------------------------------------------------------------------------
(* ASanSystemInterceptorGenerator.__init__                                 *)

OutputsConflict_All(files, overwrite_flag) ==
  /\ \A o \in OutputNames : files[o].exists
  /\ ~overwrite_flag

\* (os.path.isfile(...) or os.path.isfile(...) or os.path.isfile(...)) and
\* not overwrite
OutputsConflict(files, overwrite_flag) ==
  /\ \/ files["impl"].exists
     \/ files["filter"].exists
     \/ files["def"].exists
  /\ ~overwrite_flag

OpenForWrite_Append(file) == [exists |-> TRUE, content |-> file.content]

\* open(name, 'w'): the file is created, or truncated if it is there.
OpenForWrite(file) == [exists |-> TRUE, content |-> <<>>]

\* file.write(text) for each text of chunks.  Buffering is not modelled: what
\* is written is in the file.
Write(file, chunks) == [file EXCEPT !.content = @ \o chunks]

\* for row in csv.DictReader(...): self._filter[row['function']] =
\* row['module']
RECURSIVE LoadFilter(_, _)
LoadFilter(rows, filter) ==
  IF rows = <<>> THEN filter
  ELSE LoadFilter(
         Tail(rows),
         [f \in DOMAIN filter \cup {Head(rows).function} |->
            IF f = Head(rows).function THEN Head(rows).module ELSE filter[f]])

\* The constructor.  With the outputs open it can still end with an IOError,
\* from open(def_file) or from open(filter); main has then not entered its
\* `with` statement.
Construct ==
  /\ pc = "construct"
  /\ IF OutputsConflict(fs, overwrite)
     THEN /\ pc' = "enter"
          /\ UNCHANGED <<fs, handle, attrs, _filter, _intercepted_functions,
                         exc>>
     ELSE \E outcome \in {"ok", "def_file_fails", "filter_fails"} :
            LET opened == [o \in OutputNames |-> OpenForWrite(fs[o])]
                copied == [opened EXCEPT
                             !["def"] = Write(@, <<DefFileContent>>)]
            IN /\ fs' = IF outcome = "def_file_fails" THEN opened ELSE copied
               /\ handle' =
                    [h \in HandleNames |->
                       IF h \in OutputNames THEN "open"
                       ELSE IF h = "def_in" /\ outcome /= "def_file_fails"
                       THEN "closed"
                       ELSE IF h = "filter_in" /\ outcome = "ok"
                       THEN "open"
                       ELSE handle[h]]
               /\ IF outcome = "ok"
                  THEN /\ attrs' = OutputAttrs
                                   \cup {"_filter", "_intercepted_functions"}
                       /\ _filter' = LoadFilter(filter_file, <<>>)
                       /\ _intercepted_functions' = {}
                       /\ exc' = exc
                       /\ pc' = "enter"
                  ELSE /\ attrs' = OutputAttrs
                       /\ exc' = "IOError"
                       /\ pc' = "done"
                       /\ UNCHANGED <<_filter, _intercepted_functions>>
  /\ UNCHANGED <<inputs, file_idx, pending, exit_raised, calls>>

\* __enter__ returns self.
Enter ==
  /\ pc = "enter"
  /\ pc' = "visit"
  /\ UNCHANGED <<inputs, fs, handle, attrs, _filter, _intercepted_functions,
                 file_idx, pending, exc, exit_raised, calls>>

----------------------------------------------------------------------------
(* VisitFunctionsInFiles                                                   *)

\* One turn of `for filename in files`: the file is opened, read and closed,
\* or open raises.  The script itself is there to be read.
OpenFile ==
  /\ pc = "visit"
  /\ pending = <<>>
  /\ file_idx <= Len(input_files)
  /\ \E readable \in (IF file_idx = 1 THEN {TRUE} ELSE BOOLEAN) :
       IF readable
       THEN /\ pending' = FunctionMatches(input_files[file_idx])
            /\ file_idx' = file_idx + 1
            /\ handle' = [handle EXCEPT !["input"] = "closed"]
            /\ UNCHANGED <<pc, exc>>
       ELSE /\ exc' = "IOError"
            /\ pc' = "exit"
            /\ UNCHANGED <<pending, file_idx, handle>>
  /\ UNCHANGED <<inputs, fs, attrs, _filter, _intercepted_functions,
                 exit_raised, calls>>

\* One turn of `for m_iter in _FUNCTION_MATCH_RE.finditer(f_content)`: the
\* callback, GenerateFunctionInterceptor, on the next match.  What it raises
\* leaves the loops and the `with` body.
Callback ==
  /\ pc = "visit"
  /\ pending /= <<>>
  /\ LET m_iter == Head(pending)
         r == GenerateFunctionInterceptor(
                attrs, _filter, _intercepted_functions,
                m_iter.name, m_iter.ret, m_iter.params)
     IN /\ _intercepted_functions' = r.intercepted
        /\ fs' = [fs EXCEPT !["impl"] = Write(@, r.impl),
                            !["filter"] = Write(@, r.filter),
                            !["def"] = Write(@, r.def)]
        /\ calls' = Append(calls,
                      [function_name |-> m_iter.name,
                       function_arguments |-> m_iter.params,
                       has_filter |-> "_filter" \in attrs,
                       filter_keys |-> DOMAIN _filter,
                       seen |-> _intercepted_functions,
                       raised |-> r.raised,
                       impl |-> r.impl,
                       filter |-> r.filter,
                       def |-> r.def])
        /\ IF r.raised = ""
           THEN UNCHANGED <<pc, exc>>
           ELSE exc' = r.raised /\ pc' = "exit"
  /\ pending' = Tail(pending)
  /\ UNCHANGED <<inputs, handle, attrs, _filter, file_idx, exit_raised>>

----------------------------------------------------------------------------
(* __exit__ and the end of main                                            *)

\* The `with` statement ends, normally or with an exception in flight:
\* __exit__ closes the three output files, the first of which it reads from
\* self._output_impl_file.
Exit ==
  /\ \/ pc = "exit"
     \/ pc = "visit" /\ pending = <<>> /\ file_idx > Len(input_files)
  /\ IF "_output_impl_file" \in attrs
     THEN /\ handle' = [h \in HandleNames |->
                          IF h \in OutputNames THEN "closed" ELSE handle[h]]
          /\ UNCHANGED <<exc, exit_raised>>
     ELSE /\ exc' = "AttributeError"
          /\ exit_raised' = TRUE
          /\ UNCHANGED handle
  /\ pc' = "done"
  /\ UNCHANGED <<inputs, fs, attrs, _filter, _intercepted_functions,
                 file_idx, pending, calls>>

Next == Construct \/ Enter \/ OpenFile \/ Callback \/ Exit

Spec == Init /\ [][Next]_vars

----------------------------------------------------------------------------
(* Properties                                                              *)

\* The call wrote one interceptor body, one filter entry and one export line,
\* all for the function it was given.
Emitted(c) ==
  /\ Len(c.impl) = 1 /\ Len(c.filter) = 1 /\ Len(c.def) = 1
  /\ c.impl[1].function_name = c.function_name
  /\ c.impl[1].function_arguments = c.function_arguments
  /\ c.filter[1].function_name = c.function_name
  /\ c.def[1] = "asan_" \o c.function_name \o "\n"

WroteNothing(c) == c.impl = <<>> /\ c.filter = <<>> /\ c.def = <<>>

SamePair(c, d) ==
  /\ c.function_name = d.function_name
  /\ c.function_arguments = d.function_arguments

\* At least one argument token of the parameter list has a tag of the
\* tag-to-access-mode table.
HasTableTag(function_arguments) ==
  \E i \in 1..Len(function_arguments.args) :
    /\ ArgMatches(function_arguments.args[i])
    /\ function_arguments.args[i].SAL_tag \in
         {"_In_reads_bytes_opt_", "_Out_writes_to_opt_",
          "_Out_writes_bytes_opt_", "_Out_writes_bytes_to_opt_"}

\* The i-th smallest element of a set of numbers.
Nth(P, i) == CHOOSE p \in P : Cardinality({q \in P : q <= p}) = i

\* C1: a pair (function_name, raw parameter text) that is presented two or
\* more times in a run and is eligible (its name is in the filter table, one
\* of its tokens has a table tag) gets exactly one interceptor body, one
\* filter entry and one export line: its first call writes the triple, every
\* later call writes nothing.
C1_DuplicatePairEmittedOnce ==
  \A i, j \in 1..Len(calls) :
    ( /\ i < j
      /\ SamePair(calls[i], calls[j])
      /\ \A k \in 1..(i - 1) : ~SamePair(calls[k], calls[i])
      /\ calls[i].function_name \in calls[i].filter_keys
      /\ HasTableTag(calls[i].function_arguments) )
    => /\ Emitted(calls[i])
       /\ WroteNothing(calls[j])
       /\ calls[j].raised = ""

\* A run presented an eligible pair twice, in two different files.
C1_Witness ==
  /\ pc = "done"
  /\ \E i, j \in 1..Len(calls) :
       /\ i + 1 < j
       /\ SamePair(calls[i], calls[j])
       /\ calls[i].function_name \in calls[i].filter_keys
       /\ HasTableTag(calls[i].function_arguments)
       /\ Emitted(calls[i])

\* C2: a call emits a triple if and only if the name is a key of the filter
\* table, the pair is not yet in the de-duplication set and a token of the
\* parameter list has a table tag; otherwise it writes nothing.
C2_EmitsIffEligible ==
  \A k \in 1..Len(calls) :
    /\ Emitted(calls[k]) <=>
         /\ calls[k].has_filter
         /\ calls[k].function_name \in calls[k].filter_keys
         /\ <<calls[k].function_name, calls[k].function_arguments>>
              \notin calls[k].seen
         /\ HasTableTag(calls[k].function_arguments)
    /\ Emitted(calls[k]) \/ WroteNothing(calls[k])

\* The names of the arguments, separated by ", ".
RECURSIVE JoinNames(_)
JoinNames(args) ==
  IF args = <<>> THEN ""
  ELSE IF Len(args) = 1 THEN args[1].var_name
  ELSE args[1].var_name \o ", " \o JoinNames(Tail(args))

\* C3: the argument list of the rendered call ::name(...) holds the name of
\* every declared argument, tagged or untagged, once and in declaration
\* order, joined with ", ".
C3_CallPassesEveryArgument ==
  \A k \in 1..Len(calls) :
    Emitted(calls[k]) =>
      calls[k].impl[1].function_param_names =
        JoinNames(calls[k].function_arguments.args)

\* size is the first comma-separated element of text.
IsFirstElement(size, text) ==
  /\ ~Contains(size, ",")
  /\ \/ size = text
     \/ /\ Len(text) > Len(size)
        /\ SubSeq(text, 1, Len(size) + 1) = size \o ","

\* C4: the primary buffer of an interceptor is the first token in source
\* order whose tag is a key of the tag-to-access-mode table; the primary
\* check has that token's name, the table's access mode for its tag and, as
\* size, the first comma-separated element of its tag arguments.
C4_PrimaryIsFirstTableTag ==
  \A k \in 1..Len(calls) :
    Emitted(calls[k]) =>
      LET body == calls[k].impl[1]
          toks == ArgTokens(calls[k].function_arguments)
      IN \E i \in 1..Len(toks) :
           /\ toks[i].SAL_tag \in DOMAIN _TAGS_TO_INTERCEPT
           /\ \A j \in 1..(i - 1) :
                toks[j].SAL_tag \notin DOMAIN _TAGS_TO_INTERCEPT
           /\ body.buffer_to_check = toks[i].var_name
           /\ body.access_type = _TAGS_TO_INTERCEPT[toks[i].SAL_tag]
           /\ toks[i].SAL_tag_args /= None
           /\ IsFirstElement(body.buffer_size, toks[i].SAL_tag_args[1])

\* An interceptor was emitted for a declaration in which two tokens with
\* different table tags qualify and the first one's tag has two arguments.
C4_Witness ==
  \E k \in 1..Len(calls) :
    /\ Emitted(calls[k])
    /\ LET toks == ArgTokens(calls[k].function_arguments)
       IN \E i, j \in 1..Len(toks) :
            /\ i < j
            /\ toks[i].SAL_tag \in DOMAIN _TAGS_TO_INTERCEPT
            /\ toks[j].SAL_tag \in DOMAIN _TAGS_TO_INTERCEPT
            /\ _TAGS_TO_INTERCEPT[toks[i].SAL_tag]
                 /= _TAGS_TO_INTERCEPT[toks[j].SAL_tag]
            /\ toks[i].var_name /= toks[j].var_name
            /\ Contains(toks[i].SAL_tag_args[1], ",")
            /\ calls[k].impl[1].buffer_to_check = toks[i].var_name


\* An interceptor for the WriteFile declaration of the module docstring.
IsWriteFileInterceptor(c) ==
  /\ Emitted(c)
  /\ c.function_name = "WriteFile"
  /\ c.function_arguments.args = WriteFileArgs

Check(param_to_check, access_type) ==
  [param_to_check |-> param_to_check, access_type |-> access_type]

\* C5, as claimed: for the WriteFile declaration the pre-call checks are
\* lpNumberOfBytesWritten (WRITE) and lpOverlapped (WRITE), in that order,
\* and the post-call checks are lpNumberOfBytesWritten (WRITE) alone.
C5_WriteFileChecksAsClaimed ==
  \A k \in 1..Len(calls) :
    IsWriteFileInterceptor(calls[k]) =>
      /\ calls[k].impl[1].param_checks_precall =
           <<Check("lpNumberOfBytesWritten", "WRITE"),
             Check("lpOverlapped", "WRITE")>>
      /\ calls[k].impl[1].param_checks_postcall =
           <<Check("lpNumberOfBytesWritten", "WRITE")>>

\* C5, amended: for the WriteFile declaration the pre-call checks are
\* lpNumberOfBytesWritten (WRITE) and lpOverlapped (READ: its tag,
\* _Inout_opt_, contains "In"), in that order, and the post-call checks are
\* lpNumberOfBytesWritten (WRITE) alone.
C5_WriteFileChecks ==
  \A k \in 1..Len(calls) :
    IsWriteFileInterceptor(calls[k]) =>
      /\ calls[k].impl[1].param_checks_precall =
           <<Check("lpNumberOfBytesWritten", "WRITE"),
             Check("lpOverlapped", "READ")>>
      /\ calls[k].impl[1].param_checks_postcall =
           <<Check("lpNumberOfBytesWritten", "WRITE")>>

\* The WriteFile interceptor was emitted.
C5_Witness ==
  \E k \in 1..Len(calls) : IsWriteFileInterceptor(calls[k])

\* C6: when an output file is there as the run starts and the overwrite flag
\* is not set, no output file is ever opened and each keeps the content it
\* had, whatever the input files hold.
C6_ConflictLeavesOutputsUntouched ==
  (existed /= {} /\ ~overwrite) =>
    /\ fs = InitialFs(existed)
    /\ \A o \in OutputNames : handle[o] = "unopened"

\* A run that found only some of the outputs in place, without the
\* overwrite flag, has ended after visiting a declaration of its input files.
C6_Witness ==
  /\ existed /= {} /\ existed /= OutputNames /\ ~overwrite
  /\ pc = "done"
  /\ Len(input_files) > 1
  /\ calls /= <<>>

\* The matches of the files, in the order the files are given.
RECURSIVE AllMatches(_)
AllMatches(files) ==
  IF files = <<>> THEN <<>>
  ELSE FunctionMatches(Head(files)) \o AllMatches(Tail(files))

\* The places in a sequence of declarations of those a run intercepts: the
\* first occurrence of each declaration whose name is in the filter table
\* and that has a token with a table tag.
InterceptedPlaces(decls, filter) ==
  {p \in 1..Len(decls) :
     /\ decls[p].name \in DOMAIN filter
     /\ HasTableTag(decls[p].params)
     /\ \A q \in 1..(p - 1) :
          ~(decls[q].name = decls[p].name /\ decls[q].params = decls[p].params)}

\* C7: after a completed run the i-th interceptor body, the i-th filter
\* entry and the i-th export line are those of the i-th intercepted
\* declaration in processing order (files in the given order, declarations
\* left to right), and the def output is the def file's content followed by
\* the export lines; nothing of an earlier output file is left.
C7_ArtifactsInProcessingOrder ==
  (pc = "done" /\ exc = "") =>
    LET decls == AllMatches(input_files)
        P == InterceptedPlaces(decls, _filter)
        n == Cardinality(P)
        impl == fs["impl"].content
        filter == fs["filter"].content
        def == fs["def"].content
    IN /\ Len(impl) = n /\ Len(filter) = n /\ Len(def) = n + 1
       /\ def[1] = DefFileContent
       /\ \A i \in 1..n :
            LET d == decls[Nth(P, i)]
            IN /\ impl[i].function_name = d.name
               /\ impl[i].function_arguments = d.params
               /\ filter[i].function_name = d.name
               /\ def[i + 1] = "asan_" \o d.name \o "\n"

\* A run with the overwrite flag over outputs of an earlier run completed,
\* having visited two headers and intercepted three declarations.
C7_Witness ==
  /\ pc = "done" /\ exc = ""
  /\ overwrite /\ existed = OutputNames
  /\ Len(input_files) >= 3
  /\ Len(fs["impl"].content) >= 3
  /\ fs["impl"].content[1].function_name /= fs["impl"].content[2].function_name

\* C8: the pre-call checks of an interceptor are the tokens whose tag is
\* _Out_, _Out_opt_, _Inout_ or _Inout_opt_, in source order, each with
\* access mode READ if its tag contains "In" and WRITE otherwise; the
\* post-call checks are those of them whose tag is _Out_ or _Out_opt_, each
\* the same entry as before the call.
C8_SecondaryChecks ==
  \A k \in 1..Len(calls) :
    Emitted(calls[k]) =>
      LET toks == ArgTokens(calls[k].function_arguments)
          pre == calls[k].impl[1].param_checks_precall
          post == calls[k].impl[1].param_checks_postcall
          P == {i \in 1..Len(toks) :
                  toks[i].SAL_tag \in
                    {"_Out_", "_Out_opt_", "_Inout_", "_Inout_opt_"}}
          Q == {i \in P : toks[i].SAL_tag \in {"_Out_", "_Out_opt_"}}
          Entry(t) ==
            [param_to_check |-> t.var_name,
             access_type |->
               IF \E x \in 1..(Len(t.SAL_tag) - 1) :
                    SubSeq(t.SAL_tag, x, x + 1) = "In"
               THEN "READ" ELSE "WRITE"]
      IN /\ Len(pre) = Cardinality(P)
         /\ \A i \in 1..Len(pre) : pre[i] = Entry(toks[Nth(P, i)])
         /\ Len(post) = Cardinality(Q)
         /\ \A i \in 1..Len(post) : post[i] = Entry(toks[Nth(Q, i)])
         /\ \A i \in 1..Len(post) : \E j \in 1..Len(pre) : post[i] = pre[j]

\* An interceptor has a READ and a WRITE pre-call check and fewer post-call
\* checks than pre-call checks.
C8_Witness ==
  \E k \in 1..Len(calls) :
    /\ Emitted(calls[k])
    /\ LET pre == calls[k].impl[1].param_checks_precall
           post == calls[k].impl[1].param_checks_postcall
       IN /\ \E i, j \in 1..Len(pre) :
               pre[i].access_type = "READ" /\ pre[j].access_type = "WRITE"
          /\ 0 < Len(post) /\ Len(post) < Len(pre)

\* C9: GenerateFunctionInterceptor never raises: every call emits one
\* complete triple or writes nothing and returns.
C9_NeverRaises ==
  \A k \in 1..Len(calls) :
    /\ calls[k].raised = ""
    /\ Emitted(calls[k]) \/ WroteNothing(calls[k])

\* C10: when the run has ended, on whatever path, no file handle the
\* generator opened is still open, and closing did not fail.
C10_HandlesReleased ==
  pc = "done" =>
    /\ \A h \in HandleNames : handle[h] /= "open"
    /\ ~exit_raised


\* The number of chunks the calls so far wrote to one output file.
Written(output) ==
  Cardinality({k \in 1..Len(calls) : calls[k][output] /= <<>>})

\* C11: after any sequence of GenerateFunctionInterceptor calls on a
\* constructed generator, whether each returned normally or not, the numbers
\* of interceptor bodies, filter entries and export lines written all equal
\* the size of the de-duplication set, and a pair is in the set exactly when
\* a call has written its complete triple.
C11_SetMatchesTriplesWritten ==
  "_intercepted_functions" \in attrs =>
    /\ Written("impl") = Cardinality(_intercepted_functions)
    /\ Written("filter") = Cardinality(_intercepted_functions)
    /\ Written("def") = Cardinality(_intercepted_functions)
    /\ \A k \in 1..Len(calls) :
         <<calls[k].function_name, calls[k].function_arguments>>
           \in _intercepted_functions
         <=> \E j \in 1..Len(calls) :
               SamePair(calls[j], calls[k]) /\ Emitted(calls[j])

====
